---- MODULE Spec2Model ----
(***************************************************************************)
(* Model of the discovery engine of canon-printer-cli                      *)
(* (src/printer_discovery.py, with the collaborators it calls in           *)
(* src/platform_utils.py and src/config_manager.py).                       *)
(*                                                                         *)
(* Text is modelled as a sequence of one-character strings, so that        *)
(* lower(), upper(), the keyword test and the model patterns are computed  *)
(* as the code computes them.  An IPv4 address is a pair <<net, host>>;    *)
(* a uri is the record of the parts that the f-strings of the code put     *)
(* together and that urlparse takes apart again.                           *)
(***************************************************************************)
EXTENDS Integers, Sequences, FiniteSets, TLC

(***************************************************************************)
(* Bounds of the model.                                                    *)
(***************************************************************************)
\* addresses that exist in all, dealt round-robin to the four /24 blocks
\* (the code iterates the 256 addresses of each block)
NumAddrs == 3
\* hosts of one sweep that answer on some port
MaxLive == 2
\* printers reported by the OS-native enumeration
MaxSys == 1
\* service lines printed by the mDNS browse
MaxMdns == 2
\* addresses of the sweep of the worker-pool specification
PoolAddrs == 52

\* words in a printer name handed to _extract_model
MaxWords == 3

\* entries of the printer cache handed to _get_manual_printers
MaxEntries == 2

\* calls of get_printer_capabilities in one behaviour
MaxCalls == 3

\* calls of add_printer in one behaviour
MaxAdds == 1

\* calls of methods of the configuration manager in one behaviour
MaxConfigCalls == 3

(***************************************************************************)
(* Text helpers: str.lower, str.upper, the "in" test on strings.           *)
(***************************************************************************)
LowerAlpha ==
  <<"a","b","c","d","e","f","g","h","i","j","k","l","m",
    "n","o","p","q","r","s","t","u","v","w","x","y","z">>

UpperAlpha ==
  <<"A","B","C","D","E","F","G","H","I","J","K","L","M",
    "N","O","P","Q","R","S","T","U","V","W","X","Y","Z">>

Digits == {"0","1","2","3","4","5","6","7","8","9"}

IsUpperLetter(c) == \E i \in 1..26 : UpperAlpha[i] = c

IsLowerLetter(c) == \E i \in 1..26 : LowerAlpha[i] = c

IsDigit(c) == c \in Digits

IsSpace(c) == c = " "

LowerChar(c) ==
  IF IsUpperLetter(c)
    THEN LowerAlpha[CHOOSE i \in 1..26 : UpperAlpha[i] = c]
    ELSE c

UpperChar(c) ==
  IF IsLowerLetter(c)
    THEN UpperAlpha[CHOOSE i \in 1..26 : LowerAlpha[i] = c]
    ELSE c

\* (the empty suffix makes the value a sequence proper)
Lower(s) == [i \in 1..Len(s) |-> LowerChar(s[i])] \o <<>>

Upper(s) == [i \in 1..Len(s) |-> UpperChar(s[i])] \o <<>>

\* sub occurs in s at position i
OccursAt(sub, s, i) ==
  /\ i >= 1
  /\ i + Len(sub) - 1 <= Len(s)
  /\ \A k \in 1..Len(sub) : s[i + k - 1] = sub[k]

\* Python's  sub in s
Contains(sub, s) == \E i \in 1..(Len(s) + 1) : OccursAt(sub, s, i)

(***************************************************************************)
(* Keyword heuristic and model patterns.                                   *)
(***************************************************************************)
canon_keywords ==
  << <<"c","a","n","o","n">>,
     <<"p","i","x","m","a">>,
     <<"i","m","a","g","e","c","l","a","s","s">>,
     <<"m","a","x","i","f","y">>,
     <<"s","e","l","p","h","y">>,
     <<"i","m","a","g","e","r","u","n","n","e","r">>,
     <<"i","j">>, <<"m","b">>, <<"m","x">>, <<"m","p">>, <<"m","g">>,
     <<"m","f">> >>

\* any(keyword in text for keyword in self.canon_keywords), text lower-cased
\* by the caller
AnyKeywordIn(text) ==
  \E k \in 1..Len(canon_keywords) : Contains(canon_keywords[k], text)

IsCanonPrinter(name) == AnyKeywordIn(Lower(name))

\* length of the longest run of characters of class C(_) starting at s[i]
RECURSIVE RunLen(_, _, _)
RunLen(s, i, cls) ==
  IF i <= Len(s) /\ s[i] \in cls THEN 1 + RunLen(s, i + 1, cls) ELSE 0

UpperLetters == {UpperAlpha[i] : i \in 1..26}

\* Length of the match of  <word>\s+[A-Z]+\d+  at position i, 0 if none.
\* Each quantifier is greedy and the classes are disjoint, so backtracking
\* never changes the outcome.
MatchWordModel(word, s, i) ==
  IF ~OccursAt(word, s, i) THEN 0
  ELSE LET a == i + Len(word)
           sp == RunLen(s, a, {" "})
           le == RunLen(s, a + sp, UpperLetters)
           di == RunLen(s, a + sp + le, Digits)
       IN IF sp >= 1 /\ le >= 1 /\ di >= 1
            THEN Len(word) + sp + le + di
            ELSE 0

\* Length of the match of  <prefix>\d+[A-Z]*  at position i, 0 if none.
MatchSeries(prefix, s, i) ==
  IF ~OccursAt(prefix, s, i) THEN 0
  ELSE LET a == i + Len(prefix)
           di == RunLen(s, a, Digits)
           le == RunLen(s, a + di, UpperLetters)
       IN IF di >= 1 THEN Len(prefix) + di + le ELSE 0

\* the ordered pattern list of _extract_model
patterns ==
  << [kind |-> "word",   lit |-> <<"P","I","X","M","A">>],
     [kind |-> "series", lit |-> <<"M","X">>],
     [kind |-> "series", lit |-> <<"M","P">>],
     [kind |-> "series", lit |-> <<"M","G">>],
     [kind |-> "series", lit |-> <<"M","F">>],
     [kind |-> "series", lit |-> <<"M","B">>],
     [kind |-> "word",   lit |-> <<"I","M","A","G","E","C","L","A","S","S">>],
     [kind |-> "word",   lit |-> <<"I","M","A","G","E","R","U","N","N","E","R">>] >>

MatchLen(pat, s, i) ==
  IF pat.kind = "word" THEN MatchWordModel(pat.lit, s, i)
                       ELSE MatchSeries(pat.lit, s, i)

\* re.search(pattern, s): the leftmost match, as <<start, length>>;
\* <<0, 0>> when the pattern matches nowhere
ReSearch(pat, s) ==
  LET hits == {i \in 1..Len(s) : MatchLen(pat, s, i) > 0}
  IN IF hits = {} THEN <<0, 0>>
     ELSE LET i == CHOOSE j \in hits : \A k \in hits : j <= k
          IN <<i, MatchLen(pat, s, i)>>

CanonPrefix == <<"C","a","n","o","n"," ">>

CanonPrinterLabel == <<"C","a","n","o","n"," ","P","r","i","n","t","e","r">>

\* _extract_model: "Canon " + match.group(0) of the first pattern that
\* matches the upper-cased name, "Canon Printer" when none does
ExtractModel(name) ==
  LET up == Upper(name)
      ok == {p \in 1..Len(patterns) : ReSearch(patterns[p], up)[2] > 0}
  IN IF ok = {} THEN CanonPrinterLabel
     ELSE LET p == CHOOSE q \in ok : \A r \in ok : q <= r
              m == ReSearch(patterns[p], up)
          IN CanonPrefix \o SubSeq(up, m[1], m[1] + m[2] - 1)

(***************************************************************************)
(* Values shared by the producers.                                         *)
(***************************************************************************)
\* Python's None
None == [none |-> TRUE]

\* a uri without an explicit port (urlparse gives port None)
NoPort == 0

\* a port that urlparse cannot read as a number: parsed.port raises ValueError
BadPort == -1

ipp_ports == <<631, 9100, 8080, 80>>

max_workers == 50

\* dict.get(key, default)
Get(d, key, default) == IF key \in DOMAIN d THEN d[key] ELSE default

\* str(ip) of the address <<net, host>>
IpText(ip) == <<ToString(ip[1]), ".", ToString(ip[2])>>

\* f"ipp://{ip}:{port}/ipp/print"
IppUri(host, port) ==
  [scheme |-> "ipp", host |-> host, port |-> port, path |-> "/ipp/print"]

\* f"cups://{printer_name}"
CupsUri(name) ==
  [scheme |-> "cups", host |-> name, port |-> NoPort, path |-> ""]

\* f"ipp://{service_name}.local:631/ipp/print"
MdnsUri(service_name) ==
  IppUri(service_name \o <<".","l","o","c","a","l">>, 631)

\* number of addresses modelled in block net
HostsIn(net) == IF NumAddrs < net THEN 0 ELSE (NumAddrs - net) \div 4 + 1

\* for ip in network: the addresses of the block, in ascending order
NetworkAddrs(net) == [h \in 1..HostsIn(net) |-> <<net, h>>]

\* mutant: with no range resolved the first default block is swept
RECURSIVE AddrsOfRangesOrDefault(_)
AddrsOfRangesOrDefault(ranges) ==
  IF ranges = <<>> THEN NetworkAddrs(1)
  ELSE NetworkAddrs(Head(ranges))
         \o (IF Tail(ranges) = <<>> THEN <<>> ELSE AddrsOfRangesOrDefault(Tail(ranges)))

RECURSIVE AddrsOfRanges(_)
AddrsOfRanges(ranges) ==
  IF ranges = <<>> THEN <<>>
  ELSE NetworkAddrs(Head(ranges)) \o AddrsOfRanges(Tail(ranges))

\* '192.168.1.0/24', '192.168.0.0/24', '10.0.0.0/24', '172.16.0.0/24',
\* numbered 1..4
common_networks == <<1, 2, 3, 4>>

(***************************************************************************)
(* _get_network_ranges.  route is what running the route command gave:     *)
(* an exception, or an exit status with the gateway it printed.            *)
(***************************************************************************)
NoGatewayLine == [gateway |-> "absent"]

BadGateway == [gateway |-> "unparseable"]

\* the gateway 192.168.1.1 of block 1
Gateways == {[gateway |-> "address", ip |-> <<1, 1>>]}

RouteResults ==
  {[kind |-> "raise"], [kind |-> "exit", returncode |-> 1, gw |-> NoGatewayLine]}
    \cup {[kind |-> "exit", returncode |-> 0, gw |-> g] :
            g \in {NoGatewayLine, BadGateway} \cup Gateways}

GetNetworkRanges(route) ==
  IF route.kind = "raise" THEN common_networks
  ELSE IF route.returncode # 0 THEN <<>>
  ELSE IF route.gw = NoGatewayLine THEN <<>>
  ELSE IF route.gw = BadGateway THEN common_networks
  ELSE <<route.gw.ip[1]>>

(***************************************************************************)
(* One host of the sweep: _is_port_open, _get_ipp_printer_info,            *)
(* _scan_host_for_ipp.                                                     *)
(***************************************************************************)
\* result of sock.connect_ex, or the exception it raised
ConnectOutcomes == {"connected", "refused", "timeout", "raise"}

\* mutant: only a refused connection counts as closed
IsPortOpenUnlessRefused(outcome) == outcome # "refused"

IsPortOpen(outcome) == outcome = "connected"

TitleOpen == {"<title>", "<TITLE>"}

TitleClose == {"</title>", "</TITLE>"}

NotLt(text) == {text[i] : i \in 1..Len(text)} \ ({"<"} \cup TitleOpen \cup TitleClose)

\* re.search(r'<title>([^<]+)</title>', text, re.IGNORECASE): group(1) of
\* the leftmost match; the group is never empty, so <<>> stands for "no match"
TitleOf(text) ==
  LET hits == {i \in 1..Len(text) :
                 /\ text[i] \in TitleOpen
                 /\ RunLen(text, i + 1, NotLt(text)) >= 1
                 /\ i + 1 + RunLen(text, i + 1, NotLt(text)) <= Len(text)
                 /\ text[i + 1 + RunLen(text, i + 1, NotLt(text))] \in TitleClose}
  IN IF hits = {} THEN <<>>
     ELSE LET i == CHOOSE j \in hits : \A k \in hits : j <= k
          IN SubSeq(text, i + 1, i + RunLen(text, i + 1, NotLt(text)))

\* f"Canon Printer at {ip}"
SynthName(ip) == CanonPrinterLabel \o <<" ","a","t"," ">> \o IpText(ip)

\* the tags count as text of the body too
TagText(c) ==
  IF c \in TitleOpen THEN <<"<","t","i","t","l","e",">">>
  ELSE IF c \in TitleClose THEN <<"<","/","t","i","t","l","e",">">>
  ELSE <<LowerChar(c)>>

RECURSIVE LowerBody(_)
LowerBody(text) ==
  IF text = <<>> THEN <<>> ELSE TagText(Head(text)) \o LowerBody(Tail(text))

\* mutant: the name is taken from the lower-cased content
GetIppPrinterInfoLowerName(ip, resp) ==
  IF resp = [kind |-> "raise"] THEN None
  ELSE IF resp.status_code # 200 THEN None
  ELSE IF ~AnyKeywordIn(LowerBody(resp.text)) THEN None
  ELSE LET t == Lower(TitleOf(resp.text))
           name == IF t = <<>> THEN SynthName(ip) ELSE t
       IN [name |-> name, model |-> ExtractModel(name), status |-> "Available"]

\* resp is the outcome of requests.get: "raise", or a response
GetIppPrinterInfo(ip, resp) ==
  IF resp = [kind |-> "raise"] THEN None
  ELSE IF resp.status_code # 200 THEN None
  ELSE IF ~AnyKeywordIn(LowerBody(resp.text)) THEN None
  ELSE LET t == TitleOf(resp.text)
           name == IF t = <<>> THEN SynthName(ip) ELSE t
       IN [name |-> name, model |-> ExtractModel(name), status |-> "Available"]

\* mutant: the uri is built without the address of the host
ScanUriNoAddress(ip, port) == IppUri(<<"p","r","i","n","t","e","r">>, port)

\* f"ipp://{ip}:{port}/ipp/print" of the sweep
ScanUri(ip, port) == IppUri(IpText(ip), port)

\* mutant: the loop gives up at the first reachable port that does not match
RECURSIVE ScanFromGivesUp(_, _, _, _, _)
ScanFromGivesUp(ip, host, k, probed, fetched) ==
  IF k > Len(ipp_ports)
    THEN [result |-> None, probed |-> probed, fetched |-> fetched]
  ELSE LET port == ipp_ports[k] IN
    IF ~IsPortOpen(host[port].connect)
      THEN ScanFromGivesUp(ip, host, k + 1, Append(probed, port), fetched)
    ELSE LET printer_info == GetIppPrinterInfo(ip, host[port].http) IN
      IF printer_info # None /\ IsCanonPrinter(Get(printer_info, "name", <<>>))
        THEN [result |-> [name   |-> printer_info.name,
                          uri    |-> ScanUri(ip, port),
                          status |-> Get(printer_info, "status", "Unknown"),
                          model  |-> Get(printer_info, "model", <<"U","n","k","n","o","w","n">>),
                          source |-> "network_scan"],
              probed |-> Append(probed, port),
              fetched |-> Append(fetched, port)]
        ELSE [result |-> None, probed |-> Append(probed, port),
              fetched |-> Append(fetched, port)]

\* The loop of _scan_host_for_ipp from the k-th port on.  host maps a port
\* to what the network answers there.  The value is the record returned (or
\* None) with the ports connected to and the ports fetched from, in order.
RECURSIVE ScanFrom(_, _, _, _, _)
ScanFrom(ip, host, k, probed, fetched) ==
  IF k > Len(ipp_ports)
    THEN [result |-> None, probed |-> probed, fetched |-> fetched]
  ELSE LET port == ipp_ports[k] IN
    IF ~IsPortOpen(host[port].connect)
      THEN ScanFrom(ip, host, k + 1, Append(probed, port), fetched)
    ELSE LET printer_info == GetIppPrinterInfo(ip, host[port].http) IN
      IF printer_info # None /\ IsCanonPrinter(Get(printer_info, "name", <<>>))
        THEN [result |-> [name   |-> printer_info.name,
                          uri    |-> ScanUri(ip, port),
                          status |-> Get(printer_info, "status", "Unknown"),
                          model  |-> Get(printer_info, "model", <<"U","n","k","n","o","w","n">>),
                          source |-> "network_scan"],
              probed |-> Append(probed, port),
              fetched |-> Append(fetched, port)]
        ELSE ScanFrom(ip, host, k + 1, Append(probed, port), Append(fetched, port))

ScanHostForIpp(ip, host) == ScanFrom(ip, host, 1, <<>>, <<>>)

(***************************************************************************)
(* The environment the producers run in, drawn from small sets.            *)
(***************************************************************************)
Ports == {ipp_ports[k] : k \in 1..Len(ipp_ports)}

HttpRaise == [kind |-> "raise"]

HttpOk(text) == [kind |-> "response", status_code |-> 200, text |-> text]

HttpNotFound == [kind |-> "response", status_code |-> 404, text |-> <<"c","a","n","o","n">>]

Closed == [connect |-> "refused", http |-> HttpRaise]

Open(resp) == [connect |-> "connected", http |-> resp]

BannerMX == <<"<title>","M","X","9","</title>">>

BannerNoTitle == <<"c","a","n","o","n">>

BannerOther == <<"<title>","h","p","</title>">>

\* the vendor is named in the page, not in its title
BannerKeywordBody == <<"<title>","h","p","</title>","c","a","n","o","n">>

\* no listener on any configured port
DeadHost == [p \in Ports |-> Closed]

\* a printer answering on the first port
Printer631 == [p \in Ports |-> IF p = 631 THEN Open(HttpOk(BannerMX)) ELSE Closed]

\* a printer whose first port is closed; the later ports would match too
Printer9100 ==
  [p \in Ports |-> IF p = 631 THEN [connect |-> "timeout", http |-> HttpRaise]
                   ELSE IF p = 9100 THEN Open(HttpOk(BannerNoTitle))
                   ELSE Open(HttpOk(BannerMX))]

\* a device that is no printer of the vendor
OtherDevice ==
  [p \in Ports |-> IF p = 631 THEN Open(HttpOk(BannerOther))
                   ELSE IF p = 8080 THEN Open(HttpNotFound)
                   ELSE Closed]

LiveProfiles == {Printer631, Printer9100, OtherDevice}

HostProfiles == {DeadHost} \cup LiveProfiles

\* every address a sweep can visit
AllAddrs ==
  {<<net, h>> : net \in {common_networks[k] : k \in 1..Len(common_networks)}
                         \cup {g.ip[1] : g \in Gateways},
                h \in 1..((NumAddrs + 3) \div 4)}

\* _scan_host_for_ipp tabulated over the addresses and the hosts modelled
ScanTable ==
  [ip \in AllAddrs, host \in HostProfiles |-> ScanHostForIpp(ip, host)]

BoundedSeq(S, n) == UNION {[1..k -> S] : k \in 0..n}

NameMX == <<"M","X","9">>

NameMG == <<"m","g","2">>

NameHP == <<"h","p">>

\* what lpstat -p lists, with the device-uri lpoptions reports for it
LpstatPool ==
  { [name |-> NameMX, device_uri |-> IppUri(IpText(<<1, 1>>), 631)],
    [name |-> NameMG, device_uri |-> None],
    [name |-> NameHP, device_uri |-> None] }

LpstatResults ==
  {[kind |-> "raise"]} \cup
  {[kind |-> "exit", returncode |-> 0, listed |-> l] : l \in BoundedSeq(LpstatPool, MaxSys)}

\* lines of dns-sd -B, split into their whitespace-separated parts
Filler == <<"x">>

MdnsLinePool ==
  { <<Filler, Filler, Filler, Filler, Filler, Filler, NameMX>>,
    <<Filler, Filler, Filler, Filler, Filler, NameMX>>,
    <<Filler, NameMG, Filler, Filler, Filler, Filler, NameHP>> }

\* the classes named by the except clause of _discover_mdns_printers
MdnsCaught == {"TimeoutExpired", "SubprocessError", "FileNotFoundError"}

\* what subprocess.run can raise: the browse outlives the timeout, dns-sd is
\* not installed, dns-sd may not be executed, its output is not valid text
MdnsExceptions ==
  {"TimeoutExpired", "FileNotFoundError", "PermissionError", "UnicodeDecodeError"}

MdnsResults ==
  {[kind |-> "raise", exc |-> e] : e \in MdnsExceptions} \cup
  {[kind |-> "exit", returncode |-> 1, lines |-> <<>>]} \cup
  {[kind |-> "exit", returncode |-> 0, lines |-> l] : l \in BoundedSeq(MdnsLinePool, MaxMdns)}

\* contents of the printers cache file the configuration manager loaded
EntryA ==
  [uri |-> IppUri(IpText(<<1, 1>>), 631),
   info |-> [name |-> <<"m","i","n","e">>, model |-> <<"T","S","1">>,
             manually_added |-> TRUE, ip |-> IpText(<<1, 1>>), port |-> 631]]

EntryB ==
  [uri |-> IppUri(IpText(<<2, 1>>), 9100),
   info |-> [manually_added |-> TRUE]]

EntryMdns ==
  [uri |-> MdnsUri(NameMX),
   info |-> [name |-> <<"o","l","d">>, manually_added |-> TRUE]]

EntrySeen ==
  [uri |-> IppUri(IpText(<<1, 1>>), NoPort),
   info |-> [name |-> NameMX, model |-> <<"M","X","9">>, manually_added |-> FALSE]]

Caches ==
  { <<>>, <<EntrySeen, EntryA>>, <<EntryMdns, EntryB>> }

(***************************************************************************)
(* The producers other than the sweep.                                     *)
(***************************************************************************)
UnknownPrinter == <<"U","n","k","n","o","w","n"," ","P","r","i","n","t","e","r">>

Unknown == <<"U","n","k","n","o","w","n">>

\* mutant: a uri without a port is tested on the raw-print port
ConnectTargetDefault9100(uri) ==
  <<uri.host, IF uri.port = NoPort THEN 9100 ELSE uri.port>>

\* the (host, port) that test_printer_connection connects to
ConnectTarget(uri) == <<uri.host, IF uri.port = NoPort THEN 631 ELSE uri.port>>

\* test_printer_connection; net maps a (host, port) to the connect outcome
TestPrinterConnection(uri, net) ==
  IF uri.port = BadPort THEN FALSE
  ELSE IsPortOpen(net[ConnectTarget(uri)])

\* mutant: an entry that does not answer is left out
RECURSIVE ManualFromDropsOffline(_, _, _)
ManualFromDropsOffline(cache, net, k) ==
  IF k > Len(cache) THEN <<>>
  ELSE LET uri == cache[k].uri
           printer_info == cache[k].info
       IN IF Get(printer_info, "manually_added", FALSE) /\ TestPrinterConnection(uri, net)
            THEN <<[name   |-> Get(printer_info, "name", UnknownPrinter),
                    uri    |-> uri,
                    status |-> "Available",
                    model  |-> Get(printer_info, "model", Unknown),
                    source |-> "manual_config",
                    ip     |-> Get(printer_info, "ip", <<>>),
                    port   |-> Get(printer_info, "port", 631)]>>
                 \o ManualFromDropsOffline(cache, net, k + 1)
            ELSE ManualFromDropsOffline(cache, net, k + 1)

\* _get_manual_printers over the cache entries from the k-th on
RECURSIVE ManualFrom(_, _, _)
ManualFrom(cache, net, k) ==
  IF k > Len(cache) THEN <<>>
  ELSE LET uri == cache[k].uri
           printer_info == cache[k].info
       IN IF Get(printer_info, "manually_added", FALSE)
            THEN <<[name   |-> Get(printer_info, "name", UnknownPrinter),
                    uri    |-> uri,
                    status |-> IF TestPrinterConnection(uri, net)
                                 THEN "Available" ELSE "Offline",
                    model  |-> Get(printer_info, "model", Unknown),
                    source |-> "manual_config",
                    ip     |-> Get(printer_info, "ip", <<>>),
                    port   |-> Get(printer_info, "port", 631)]>>
                 \o ManualFrom(cache, net, k + 1)
            ELSE ManualFrom(cache, net, k + 1)

GetManualPrinters(attached, cache, net) ==
  IF ~attached THEN <<>> ELSE ManualFrom(cache, net, 1)

\* _get_unix_printers_lpstat over the listed printers
RECURSIVE LpstatFrom(_)
LpstatFrom(listed) ==
  IF listed = <<>> THEN <<>>
  ELSE LET printer_name == Head(listed).name
           uri == Head(listed).device_uri
       IN IF IsCanonPrinter(printer_name)
            THEN <<[name   |-> printer_name,
                    uri    |-> IF uri = None THEN CupsUri(printer_name) ELSE uri,
                    status |-> "Available",
                    model  |-> ExtractModel(printer_name),
                    source |-> "lpstat"]>> \o LpstatFrom(Tail(listed))
            ELSE LpstatFrom(Tail(listed))

GetSystemPrinters(res) ==
  IF res.kind = "raise" THEN <<>>
  ELSE IF res.returncode # 0 THEN <<>>
  ELSE LpstatFrom(res.listed)

\* any(keyword in line.lower() ...) for a line given by its parts
LineHasKeyword(parts) == \E k \in 1..Len(parts) : IsCanonPrinter(parts[k])

\* the loop over the lines of _discover_mdns_printers
RECURSIVE MdnsFrom(_)
MdnsFrom(lines) ==
  IF lines = <<>> THEN <<>>
  ELSE LET parts == Head(lines) IN
    IF LineHasKeyword(parts) /\ Len(parts) >= 7 /\ IsCanonPrinter(parts[7])
      THEN <<[name   |-> parts[7],
              uri    |-> MdnsUri(parts[7]),
              status |-> "Available",
              model  |-> ExtractModel(parts[7]),
              source |-> "mdns"]>> \o MdnsFrom(Tail(lines))
      ELSE MdnsFrom(Tail(lines))

\* the exception is none of those the except clause names
MdnsPropagates(res) == res.kind = "raise" /\ res.exc \notin MdnsCaught

\* the value _discover_mdns_printers returns, when it returns
DiscoverMdnsPrinters(res) ==
  IF res.kind = "raise" THEN <<>>
  ELSE IF res.returncode # 0 THEN <<>>
  ELSE MdnsFrom(res.lines)

\* what get_system_printers can return in the environments modelled
SystemOutputs == {GetSystemPrinters(res) : res \in LpstatResults}

\* what _discover_mdns_printers can return in the environments modelled
MdnsOutputs ==
  {DiscoverMdnsPrinters(res) : res \in {r \in MdnsResults : ~MdnsPropagates(r)}}

\* the exceptions that leave _discover_mdns_printers in those environments
MdnsEscapes == {r.exc : r \in {x \in MdnsResults : MdnsPropagates(x)}}

(***************************************************************************)
(* Aggregation and deduplication of find_canon_printers.                   *)
(***************************************************************************)
\* mutant: the new records are put in front of the list
ExtendInFront(list, new) == new \o list

\* printers.extend(new)
Extend(list, new) == list \o new

Uris(list) == {list[i].uri : i \in 1..Len(list)}

\* the loop filling unique_printers; the dict keeps insertion order, so it
\* is the sequence of its values
RECURSIVE DedupFrom(_, _, _)
DedupFrom(list, k, unique_printers) ==
  IF k > Len(list) THEN unique_printers
  ELSE IF list[k].uri \notin Uris(unique_printers)
    THEN DedupFrom(list, k + 1, Append(unique_printers, list[k]))
    ELSE DedupFrom(list, k + 1, unique_printers)

\* mutant: the key of the dict is the display name
RECURSIVE DedupByNameFrom(_, _, _)
DedupByNameFrom(list, k, unique) ==
  IF k > Len(list) THEN unique
  ELSE IF list[k].name \notin {unique[i].name : i \in 1..Len(unique)}
    THEN DedupByNameFrom(list, k + 1, Append(unique, list[k]))
    ELSE DedupByNameFrom(list, k + 1, unique)

DedupByName(list) == DedupByNameFrom(list, 1, <<>>)

\* mutant: the test is dropped, a later record overwrites the value stored
\* under its uri (the key keeps its place in the dict)
RECURSIVE DedupOverwriteFrom(_, _, _)
DedupOverwriteFrom(list, k, unique) ==
  IF k > Len(list) THEN unique
  ELSE IF list[k].uri \notin Uris(unique)
    THEN DedupOverwriteFrom(list, k + 1, Append(unique, list[k]))
    ELSE DedupOverwriteFrom(list, k + 1,
           [i \in 1..Len(unique) |->
              IF unique[i].uri = list[k].uri THEN list[k] ELSE unique[i]])

DedupOverwrite(list) == DedupOverwriteFrom(list, 1, <<>>)

Dedup(list) == DedupFrom(list, 1, <<>>)

(***************************************************************************)
(* The worker pool of the sweep.                                           *)
(***************************************************************************)
\* mutant: the pool admits one task more than it has workers
CanStartOneMore(running) == running <= max_workers

\* mutant: the loop stops at the first printer found
SweepStopsAtFirstMatch(fs, yielded) ==
  \/ yielded = 1..Len(fs)
  \/ \E i \in yielded : fs[i].result # None

\* a worker takes the next work item only when one of the max_workers
\* threads is not running a task
CanStart(running) == running < max_workers

\* as_completed(futures) is exhausted once it has yielded every future
SweepComplete(fs, yielded) == yielded = 1..Len(fs)

(***************************************************************************)
(* State.                                                                  *)
(***************************************************************************)
VARIABLES
  config_manager,    \* a configuration manager is attached
  printers_cache,    \* its cache: the (uri, info) items in dict order
  pc,                \* position of the run in find_canon_printers
  calls,             \* the producers invoked so far, in order
  printers,          \* the aggregate list of find_canon_printers
  manual_printers,   \* the four contributions, as the run received them
  system_printers,
  network_printers,
  mdns_printers,
  unique_printers,   \* the list the run returns
  network_ranges,    \* the ranges of the sweep
  futures,           \* the submitted probe tasks, in submission order
  yielded,           \* the futures as_completed has yielded
  scan_printers,     \* the result list local to _discover_network_printers
  pool_submitted,    \* worker-pool specification: tasks submitted,
  pool_started,      \*   taken by a worker,
  pool_finished,     \*   and completed
  fn,                \* single-call specification: the method called,
  arg,               \*   its arguments,
  returned,          \*   whether it has returned,
  ret,               \*   and the value it returned
  heap_dicts,        \* object specification: the descriptor dicts allocated,
  heap_lists,        \*   the list objects their fields refer to,
  caps_ret,          \*   the descriptor the last call returned, as returned
  default_config,    \* configuration manager: its default_config dict,
  config,            \*   its config dict,
  objects,           \*   and the nested dict objects the two refer to
  added,             \* the calls of add_printer made so far, with their outcome
  config_calls       \* the methods of the configuration manager called so far

vars ==
  <<config_manager, printers_cache, pc, calls, printers, manual_printers,
    system_printers, network_printers, mdns_printers, unique_printers,
    network_ranges, futures, yielded, scan_printers,
    pool_submitted, pool_started, pool_finished, fn, arg, returned, ret,
    heap_dicts, heap_lists, caps_ret, default_config, config, objects,
    added, config_calls>>

cliVars == <<added, config_calls>>

confVars == <<default_config, config, objects>>

heapVars == <<heap_dicts, heap_lists, caps_ret>>

callVars == <<fn, arg, returned, ret>>

poolVars == <<pool_submitted, pool_started, pool_finished>>

cfgVars == <<config_manager, printers_cache>>

sweepVars == <<network_ranges, futures, yielded, scan_printers>>

contribVars ==
  <<manual_printers, system_printers, network_printers, mdns_printers>>

\* everything a single call of a method leaves alone
findVars ==
  <<cfgVars, pc, calls, printers, contribVars, unique_printers, sweepVars, poolVars>>

runVars == <<findVars, heapVars, confVars, cliVars>>

(***************************************************************************)
(* The configuration manager: default_config, config and the nested dicts  *)
(* both refer to.  A top-level dict is a record whose logging and network  *)
(* fields are references into the sequence of nested dict objects.         *)
(***************************************************************************)
DefaultLogging == [enabled |-> TRUE, level |-> "INFO"]

DefaultNetwork ==
  [scan_ranges |-> <<1, 2, 3>>, ports |-> <<631, 9100, 8080, 80>>, max_workers |-> 50]

\* the nested dicts the literal of __init__ allocates
BaseObjects == <<DefaultLogging, DefaultNetwork>>

\* self.default_config as __init__ builds it
BaseDefaultConfig ==
  [default_copies |-> 1, save_printer_history |-> TRUE, logging |-> 1, network |-> 2]

\* the config file does not exist, or reading it raised
NoFile == [nofile |-> TRUE]

\* contents of config.yaml
ConfigFiles ==
  { NoFile,
    [default_copies |-> 2],
    [save_printer_history |-> FALSE, logging |-> [level |-> "DEBUG"]],
    [network |-> [max_workers |-> 1]],
    [network |-> [ports |-> <<9100, 631>>]],
    [network |-> [ports |-> <<9100>>, max_workers |-> 1]] }

\* dict1.copy() updated with the items of dict2, both without nested dicts
Merged(dict1, dict2) ==
  [k \in DOMAIN dict1 \cup DOMAIN dict2 |->
     IF k \in DOMAIN dict2 THEN dict2[k] ELSE dict1[k]]

\* _load_config: default_config.copy() when there is no file, else
\* _deep_merge(default_config.copy(), loaded), which allocates a new nested
\* dict for every nested key of the file and shares the others
LoadConfig(dc, objs, file) ==
  IF file = NoFile THEN [config |-> dc, objects |-> objs]
  ELSE
    LET objs1 == IF "logging" \in DOMAIN file
                   THEN Append(objs, Merged(objs[dc.logging], file.logging))
                   ELSE objs
        lref == IF "logging" \in DOMAIN file THEN Len(objs1) ELSE dc.logging
        objs2 == IF "network" \in DOMAIN file
                   THEN Append(objs1, Merged(objs[dc.network], file.network))
                   ELSE objs1
        nref == IF "network" \in DOMAIN file THEN Len(objs2) ELSE dc.network
    IN [config |->
          [default_copies |-> IF "default_copies" \in DOMAIN file
                                THEN file.default_copies ELSE dc.default_copies,
           save_printer_history |-> IF "save_printer_history" \in DOMAIN file
                                      THEN file.save_printer_history
                                      ELSE dc.save_printer_history,
           logging |-> lref,
           network |-> nref],
        objects |-> objs2]

\* the state of the configuration manager after __init__ read the file
ConfigLoaded(file) ==
  /\ default_config = BaseDefaultConfig
  /\ config = LoadConfig(BaseDefaultConfig, BaseObjects, file).config
  /\ objects = LoadConfig(BaseDefaultConfig, BaseObjects, file).objects

RunInit ==
  /\ config_manager \in BOOLEAN
  /\ printers_cache \in Caches
  /\ (~config_manager => printers_cache = <<>>)
  /\ pc = "manual"
  /\ calls = <<>>
  /\ printers = <<>>
  /\ manual_printers = <<>>
  /\ system_printers = <<>>
  /\ network_printers = <<>>
  /\ mdns_printers = <<>>
  /\ unique_printers = <<>>
  /\ network_ranges = <<>>
  /\ futures = <<>>
  /\ yielded = {}
  /\ scan_printers = <<>>
  /\ pool_submitted = 0
  /\ pool_started = 0
  /\ pool_finished = 0

\* no single call is under way
CallIdle ==
  /\ fn = "none"
  /\ arg = <<>>
  /\ returned = FALSE
  /\ ret = <<>>

\* no object has been allocated
HeapIdle ==
  /\ heap_dicts = <<>>
  /\ heap_lists = <<>>
  /\ caps_ret = None

\* no command of the CLI has run and no method of the manager was called
CliIdle ==
  /\ added = <<>>
  /\ config_calls = <<>>

Init == RunInit /\ CallIdle /\ HeapIdle /\ ConfigLoaded(NoFile) /\ CliIdle

(***************************************************************************)
(* find_canon_printers, one action per step.                               *)
(***************************************************************************)
\* mutant: the entries found offline are removed from the cache
ManualStepForgetsOffline ==
  /\ pc = "manual"
  /\ \E net \in [{ConnectTarget(printers_cache[k].uri) : k \in 1..Len(printers_cache)}
                   -> ConnectOutcomes] :
       LET new == GetManualPrinters(config_manager, printers_cache, net)
           Online(e) == TestPrinterConnection(e.uri, net)
       IN
         /\ manual_printers' = new
         /\ printers' = Extend(printers, new)
         /\ printers_cache' = IF config_manager THEN SelectSeq(printers_cache, Online)
                                                ELSE printers_cache
  /\ calls' = IF config_manager THEN Append(calls, "manual") ELSE calls
  /\ pc' = "system"
  /\ UNCHANGED <<config_manager, system_printers, network_printers, mdns_printers,
                 unique_printers, sweepVars, poolVars, callVars, heapVars, confVars, cliVars>>

\* Method 0: the manual printers, when a configuration manager is attached
ManualStep ==
  /\ pc = "manual"
  /\ \E net \in [{ConnectTarget(printers_cache[k].uri) : k \in 1..Len(printers_cache)}
                   -> ConnectOutcomes] :
       LET new == GetManualPrinters(config_manager, printers_cache, net) IN
         /\ manual_printers' = new
         /\ printers' = Extend(printers, new)
  /\ calls' = IF config_manager THEN Append(calls, "manual") ELSE calls
  /\ pc' = "system"
  /\ UNCHANGED <<cfgVars, system_printers, network_printers, mdns_printers,
                 unique_printers, sweepVars, poolVars, callVars, heapVars, confVars, cliVars>>

\* Method 1: the printers the operating system knows
SystemStep ==
  /\ pc = "system"
  /\ \E new \in SystemOutputs :
       /\ system_printers' = new
       /\ printers' = Extend(printers, new)
  /\ calls' = Append(calls, "system")
  /\ pc' = "network"
  /\ UNCHANGED <<cfgVars, manual_printers, network_printers, mdns_printers,
                 unique_printers, sweepVars, poolVars, callVars, heapVars, confVars, cliVars>>

\* Method 2 begins: _discover_network_printers resolves the ranges and
\* opens the executor
SweepStart ==
  /\ pc = "network"
  /\ \E route \in RouteResults :
       /\ network_ranges' = GetNetworkRanges(route)
       /\ pc' = IF AddrsOfRanges(GetNetworkRanges(route)) = <<>>
                  THEN "collect" ELSE "submit"
  /\ calls' = Append(calls, "network")
  /\ futures' = <<>>
  /\ yielded' = {}
  /\ scan_printers' = <<>>
  /\ UNCHANGED <<cfgVars, printers, contribVars, unique_printers, poolVars, callVars, heapVars, confVars, cliVars>>

\* executor.submit(self._scan_host_for_ipp, str(ip)) for the next address
Submit ==
  /\ pc = "submit"
  /\ LET addrs == AddrsOfRanges(network_ranges)
         n == Len(futures) + 1
     IN /\ futures' = Append(futures,
                        [ip |-> addrs[n], state |-> "queued", live |-> FALSE,
                         result |-> None, probed |-> <<>>, fetched |-> <<>>])
        /\ pc' = IF n = Len(addrs) THEN "collect" ELSE "submit"
  /\ UNCHANGED <<cfgVars, calls, printers, contribVars, unique_printers,
                 network_ranges, yielded, scan_printers, poolVars, callVars, heapVars, confVars, cliVars>>

Running(fs) == {i \in 1..Len(fs) : fs[i].state = "running"}

\* a worker thread takes the oldest queued task
WorkerStart(i) ==
  /\ futures[i].state = "queued"
  /\ \A j \in 1..(i - 1) : futures[j].state # "queued"
  /\ CanStart(Cardinality(Running(futures)))
  /\ futures' = [futures EXCEPT ![i].state = "running"]
  /\ UNCHANGED <<cfgVars, pc, calls, printers, contribVars, unique_printers,
                 network_ranges, yielded, scan_printers, poolVars, callVars, heapVars, confVars, cliVars>>

LiveSoFar(fs) == {i \in 1..Len(fs) : fs[i].live}

\* mutant: the task appends the record it found to the list of the sweep
WorkerFinishAppends(i) ==
  /\ futures[i].state = "running"
  /\ \E host \in HostProfiles :
       /\ host \in LiveProfiles => Cardinality(LiveSoFar(futures)) < MaxLive
       /\ LET scan == ScanTable[futures[i].ip, host] IN
            /\ futures' = [futures EXCEPT
                             ![i] = [ip |-> futures[i].ip, state |-> "finished",
                                     live |-> host \in LiveProfiles,
                                     result |-> scan.result,
                                     probed |-> scan.probed,
                                     fetched |-> scan.fetched]]
            /\ scan_printers' = IF scan.result # None
                                  THEN Append(scan_printers, scan.result)
                                  ELSE scan_printers
  /\ UNCHANGED <<cfgVars, pc, calls, printers, contribVars, unique_printers,
                 network_ranges, yielded, poolVars, callVars, heapVars, confVars, cliVars>>

\* the task runs _scan_host_for_ipp against what the host answers and
\* stores its return value in its own future
WorkerFinish(i) ==
  /\ futures[i].state = "running"
  /\ \E host \in HostProfiles :
       /\ host \in LiveProfiles => Cardinality(LiveSoFar(futures)) < MaxLive
       /\ LET scan == ScanTable[futures[i].ip, host] IN
            futures' = [futures EXCEPT
                          ![i] = [ip |-> futures[i].ip, state |-> "finished",
                                  live |-> host \in LiveProfiles,
                                  result |-> scan.result,
                                  probed |-> scan.probed,
                                  fetched |-> scan.fetched]]
  /\ UNCHANGED <<cfgVars, pc, calls, printers, contribVars, unique_printers,
                 network_ranges, yielded, scan_printers, poolVars, callVars, heapVars, confVars, cliVars>>

\* one round of  for future in as_completed(futures)
Collect(i) ==
  /\ pc = "collect"
  /\ futures[i].state = "finished"
  /\ i \notin yielded
  /\ yielded' = yielded \cup {i}
  /\ scan_printers' = IF futures[i].result # None
                        THEN Append(scan_printers, futures[i].result)
                        ELSE scan_printers
  /\ UNCHANGED <<cfgVars, pc, calls, printers, contribVars, unique_printers,
                 network_ranges, futures, poolVars, callVars, heapVars, confVars, cliVars>>

\* the loop is over: the sweep returns and the run appends its list
SweepReturn ==
  /\ pc = "collect"
  /\ SweepComplete(futures, yielded)
  /\ network_printers' = scan_printers
  /\ printers' = Extend(printers, scan_printers)
  /\ pc' = "mdns"
  /\ UNCHANGED <<cfgVars, calls, manual_printers, system_printers,
                 mdns_printers, unique_printers, sweepVars, poolVars, callVars, heapVars, confVars, cliVars>>

\* Method 3: the mDNS browse
MdnsStep ==
  /\ pc = "mdns"
  /\ \/ \E new \in MdnsOutputs :
          /\ mdns_printers' = new
          /\ printers' = Extend(printers, new)
          /\ pc' = "dedup"
     \/ \* the exception passes through find_canon_printers to its caller
        \E exc \in MdnsEscapes :
          /\ pc' = "raised"
          /\ UNCHANGED <<mdns_printers, printers>>
  /\ calls' = Append(calls, "mdns")
  /\ UNCHANGED <<cfgVars, manual_printers, system_printers, network_printers,
                 unique_printers, sweepVars, poolVars, callVars, heapVars, confVars, cliVars>>

\* the duplicates are removed and the list is returned
DedupStep ==
  /\ pc = "dedup"
  /\ unique_printers' = Dedup(printers)
  /\ pc' = "done"
  /\ UNCHANGED <<cfgVars, calls, printers, contribVars, sweepVars, poolVars, callVars, heapVars, confVars, cliVars>>

Next ==
  \/ ManualStep
  \/ SystemStep
  \/ SweepStart
  \/ Submit
  \/ \E i \in 1..Len(futures) : WorkerStart(i)
  \/ \E i \in 1..Len(futures) : WorkerFinish(i)
  \/ \E i \in 1..Len(futures) : Collect(i)
  \/ SweepReturn
  \/ MdnsStep
  \/ DedupStep

Spec == Init /\ [][Next]_vars

\* What the timeouts and the pool guarantee: a step that can be taken is
\* taken.  The connect of a probe returns within its timeout (1 s in the
\* sweep, 5 s in test_printer_connection) and the banner fetch within 3 s;
\* lpstat and the mDNS browse run under subprocess timeouts; the pool gives
\* a queued task a free worker; the calling thread runs on.
Fairness ==
  /\ WF_vars(ManualStep)
  /\ WF_vars(SystemStep)
  /\ WF_vars(SweepStart)
  /\ WF_vars(Submit)
  /\ WF_vars(\E i \in 1..Len(futures) : WorkerStart(i))
  /\ WF_vars(\E i \in 1..Len(futures) : WorkerFinish(i))
  /\ WF_vars(\E i \in 1..Len(futures) : Collect(i))
  /\ WF_vars(SweepReturn)
  /\ WF_vars(MdnsStep)
  /\ WF_vars(DedupStep)

SpecFair == Init /\ [][Next]_vars /\ Fairness

\* the same run with a config file that sets options of the network section
ConfiguredInit ==
  /\ RunInit
  /\ config_manager
  /\ printers_cache = <<>>
  /\ CallIdle
  /\ HeapIdle
  /\ \E file \in {f \in ConfigFiles : "network" \in DOMAIN f} : ConfigLoaded(file)
  /\ CliIdle

SpecConfigured == ConfiguredInit /\ [][Next]_vars

(***************************************************************************)
(* The worker pool alone, with more addresses than workers: the tasks are  *)
(* counted, not told apart.                                                *)
(***************************************************************************)
PoolInit == Init /\ ~config_manager

PoolSubmit ==
  /\ pool_submitted < PoolAddrs
  /\ pool_submitted' = pool_submitted + 1
  /\ UNCHANGED <<pool_started, pool_finished>>

PoolStart ==
  /\ pool_started < pool_submitted
  /\ CanStart(pool_started - pool_finished)
  /\ pool_started' = pool_started + 1
  /\ UNCHANGED <<pool_submitted, pool_finished>>

PoolFinish ==
  /\ pool_finished < pool_started
  /\ pool_finished' = pool_finished + 1
  /\ UNCHANGED <<pool_submitted, pool_started>>

PoolNext ==
  /\ \/ PoolSubmit
     \/ PoolStart
     \/ PoolFinish
  /\ UNCHANGED <<cfgVars, pc, calls, printers, contribVars, unique_printers,
                 sweepVars, callVars, heapVars, confVars, cliVars>>

SpecPool == PoolInit /\ [][PoolNext]_vars

(***************************************************************************)
(* One call of one method on arguments drawn from the sets below.          *)
(***************************************************************************)
\* what one port of a host can answer
Endpoints ==
  { Closed,
    [connect |-> "timeout", http |-> HttpRaise],
    [connect |-> "raise", http |-> HttpRaise],
    Open(HttpRaise),
    Open(HttpNotFound),
    Open(HttpOk(BannerMX)),
    Open(HttpOk(BannerNoTitle)),
    Open(HttpOk(BannerOther)),
    Open(HttpOk(BannerKeywordBody)) }

\* the address of the host scanned
CallIp == <<1, 1>>

ScanInputs == {[ip |-> CallIp, host |-> h] : h \in [Ports -> Endpoints]}

\* the words printer names are made of
NameWords ==
  { <<"C","a","n","o","n">>, <<"P","I","X","M","A">>, <<"T","S","3","4","0","0">>,
    <<"M","X","9","2","2">>, <<"i","m","a","g","e","C","L","A","S","S">>,
    <<"h","p">> }

RECURSIVE JoinWords(_)
JoinWords(ws) ==
  IF ws = <<>> THEN <<>>
  ELSE IF Len(ws) = 1 THEN ws[1]
  ELSE ws[1] \o <<" ">> \o JoinWords(Tail(ws))

\* names of up to MaxWords words separated by one space
NameInputs == {JoinWords(ws) : ws \in BoundedSeq(NameWords, MaxWords)}

\* caches of up to MaxEntries entries, one entry per uri, in insertion order
ManualCaches ==
  {c \in BoundedSeq({EntryA, EntryB, EntryMdns, EntrySeen}, MaxEntries) :
     \A i, j \in 1..Len(c) : c[i].uri = c[j].uri => i = j}

\* a cache, what each (host, port) of it answers to a connection, and
\* whether the discovery object has a configuration manager
ManualInputs ==
  {[attached |-> a, cache |-> c, net |-> n] :
     a \in BOOLEAN,
     c \in ManualCaches,
     n \in UNION {[{ConnectTarget(c[k].uri) : k \in 1..Len(c)} -> ConnectOutcomes] :
                    c \in ManualCaches}}

\* urlparse gives no hostname
NoHost == <<>>

\* the uris handed to test_printer_connection
TestUris ==
  {[scheme |-> "ipp", host |-> h, port |-> p, path |-> "/ipp/print"] :
     h \in {IpText(CallIp), NameMX \o <<".","l","o","c","a","l">>, NoHost},
     p \in {NoPort, BadPort, 631, 9100}}

\* a uri and what its host answers on the two ports; connecting to no host
\* raises
TestInputs ==
  {[uri |-> u, net |-> n] :
     u \in TestUris,
     n \in UNION {[{<<h, 631>>, <<h, 9100>>} -> ConnectOutcomes] :
                    h \in {t.host : t \in TestUris}}}

CallInit ==
  /\ RunInit
  /\ HeapIdle
  /\ ConfigLoaded(NoFile)
  /\ CliIdle
  /\ ~config_manager
  /\ returned = FALSE
  /\ ret = <<>>
  /\ \/ fn = "_scan_host_for_ipp" /\ arg \in ScanInputs
     \/ fn = "_extract_model" /\ arg \in NameInputs
     \/ fn = "_get_network_ranges" /\ arg \in RouteResults
     \/ /\ fn = "test_printer_connection"
        /\ arg \in TestInputs
        /\ DOMAIN arg.net = {<<arg.uri.host, 631>>, <<arg.uri.host, 9100>>}
        /\ arg.uri.host = NoHost => \A t \in DOMAIN arg.net : arg.net[t] = "raise"
     \/ /\ fn = "_get_manual_printers"
        /\ arg \in ManualInputs
        /\ DOMAIN arg.net = {ConnectTarget(arg.cache[k].uri) : k \in 1..Len(arg.cache)}

CallScanHostForIpp ==
  /\ fn = "_scan_host_for_ipp"
  /\ ~returned
  /\ ret' = ScanHostForIpp(arg.ip, arg.host)
  /\ returned' = TRUE
  /\ UNCHANGED <<fn, arg, runVars>>

CallExtractModel ==
  /\ fn = "_extract_model"
  /\ ~returned
  /\ ret' = ExtractModel(arg)
  /\ returned' = TRUE
  /\ UNCHANGED <<fn, arg, runVars>>

CallGetManualPrinters ==
  /\ fn = "_get_manual_printers"
  /\ ~returned
  /\ ret' = GetManualPrinters(arg.attached, arg.cache, arg.net)
  /\ returned' = TRUE
  /\ UNCHANGED <<fn, arg, runVars>>

CallGetNetworkRanges ==
  /\ fn = "_get_network_ranges"
  /\ ~returned
  /\ ret' = GetNetworkRanges(arg)
  /\ returned' = TRUE
  /\ UNCHANGED <<fn, arg, runVars>>

CallTestPrinterConnection ==
  /\ fn = "test_printer_connection"
  /\ ~returned
  /\ ret' = TestPrinterConnection(arg.uri, arg.net)
  /\ returned' = TRUE
  /\ UNCHANGED <<fn, arg, runVars>>

CallNext ==
  \/ CallTestPrinterConnection
  \/ CallScanHostForIpp
  \/ CallExtractModel
  \/ CallGetNetworkRanges
  \/ CallGetManualPrinters

SpecCall == CallInit /\ [][CallNext]_vars

(***************************************************************************)
(* get_printer_capabilities and the callers that keep what it returned.    *)
(* A descriptor is a dict object; its two list fields refer to list        *)
(* objects, which a caller can change in place.                            *)
(***************************************************************************)
DefaultMedia == <<"A4", "Letter", "Legal", "4x6", "5x7">>

DefaultQuality == <<"draft", "normal", "high">>

\* mutant: the lists of the first descriptor are shared by the later ones
GetPrinterCapabilitiesSharedLists(printer_uri, dicts, lists) ==
  LET media == 2
      quality == 3
      capabilities == [duplex |-> TRUE, color |-> TRUE, max_copies |-> 99,
                       supported_media |-> media, supported_quality |-> quality]
  IN [dicts |-> Append(dicts, capabilities),
      lists |-> IF lists = <<>> THEN <<<<>>, DefaultMedia, DefaultQuality>> ELSE lists,
      ref   |-> Len(dicts) + 1]

\* get_printer_capabilities: the dict literal allocates the dict, an empty
\* media list and the quality list; update() sets duplex and color and
\* stores a newly allocated media list.  The value is the heap after the
\* call and the reference returned.
GetPrinterCapabilities(printer_uri, dicts, lists) ==
  LET empty == Len(lists) + 1
      media == Len(lists) + 2
      quality == Len(lists) + 3
      literal == [duplex |-> FALSE, color |-> FALSE, max_copies |-> 99,
                  supported_media |-> empty, supported_quality |-> quality]
      capabilities == [literal EXCEPT !.duplex = TRUE, !.color = TRUE,
                                      !.supported_media = media]
  IN [dicts |-> Append(dicts, capabilities),
      lists |-> lists \o <<<<>>, DefaultMedia, DefaultQuality>>,
      ref   |-> Len(dicts) + 1]

\* the descriptor a reference denotes, lists included
Deref(dicts, lists, ref) ==
  [dicts[ref] EXCEPT !.supported_media = lists[dicts[ref].supported_media],
                     !.supported_quality = lists[dicts[ref].supported_quality]]

CapUris == {IppUri(IpText(CallIp), 631), MdnsUri(NameMX), CupsUri(NameHP)}

CapsInit ==
  /\ RunInit
  /\ CallIdle
  /\ HeapIdle
  /\ ConfigLoaded(NoFile)
  /\ CliIdle
  /\ ~config_manager

\* a caller asks for the capabilities of a uri and keeps the descriptor
CallGetPrinterCapabilities ==
  /\ Len(heap_dicts) < MaxCalls
  /\ \E printer_uri \in CapUris :
       LET out == GetPrinterCapabilities(printer_uri, heap_dicts, heap_lists) IN
         /\ heap_dicts' = out.dicts
         /\ heap_lists' = out.lists
         /\ caps_ret' = Deref(out.dicts, out.lists, out.ref)
  /\ UNCHANGED <<findVars, callVars, confVars, cliVars>>

\* a caller assigns a key of a descriptor it holds
CallerSetsKey ==
  /\ \E d \in 1..Len(heap_dicts) :
       \/ heap_dicts' = [heap_dicts EXCEPT ![d].duplex = FALSE]
       \/ heap_dicts' = [heap_dicts EXCEPT ![d].max_copies = 1]
  /\ UNCHANGED <<heap_lists, caps_ret, findVars, callVars, confVars, cliVars>>

\* a caller changes, in place, a list of a descriptor it holds
CallerChangesList ==
  /\ \E d \in 1..Len(heap_dicts) :
       \/ heap_lists' = [heap_lists EXCEPT ![heap_dicts[d].supported_media] = <<>>]
       \/ heap_lists' = [heap_lists EXCEPT ![heap_dicts[d].supported_quality] =
                                              <<"draft">>]
  /\ UNCHANGED <<heap_dicts, caps_ret, findVars, callVars, confVars, cliVars>>

CapsNext ==
  \/ CallGetPrinterCapabilities
  \/ CallerSetsKey
  \/ CallerChangesList

SpecCaps == CapsInit /\ [][CapsNext]_vars

(***************************************************************************)
(* The add command of the CLI: add_printer, which saves the printer with   *)
(* save_printer_info, followed by the first step of the next discovery.    *)
(***************************************************************************)
\* re.match(r'^(?:[0-9]{1,3}\.){3}[0-9]{1,3}$', ip), on addresses written
\* with two components
MatchesIpPattern(ip) ==
  /\ Len(ip) = 3
  /\ ip[1] \in Digits
  /\ ip[2] = "."
  /\ ip[3] \in Digits

\* the address an accepted text denotes
AddrOf(ip) == CHOOSE a \in AllAddrs : IpText(a) = ip

\* the keywords the web fallback of add_printer looks for
web_keywords ==
  << <<"c","a","n","o","n">>,
     <<"p","i","x","m","a">>,
     <<"i","m","a","g","e","c","l","a","s","s">> >>

PrinterLabel == <<"P","r","i","n","t","e","r">>

UnknownCanonModel == Unknown \o <<" ","C","a","n","o","n"," ","M","o","d","e","l">>

\* no --name option
NoName == <<>>

\* name or f"{label} at {ip}"
NameOr(name, label, ip) ==
  IF name # NoName THEN name ELSE label \o <<" ","a","t"," ">> \o ip

\* the fallback of add_printer when _get_ipp_printer_info returned None:
\* web is the outcome of requests.get on the web interface
WebPrinterInfo(ip, name, web) ==
  IF web = HttpRaise
    THEN [name |-> NameOr(name, PrinterLabel, ip), model |-> Unknown,
          status |-> "Available"]
  ELSE IF web.status_code # 200 THEN None
  ELSE IF \E k \in 1..Len(web_keywords) : Contains(web_keywords[k], LowerBody(web.text))
    THEN [name |-> NameOr(name, CanonPrinterLabel, ip), model |-> UnknownCanonModel,
          status |-> "Available"]
  ELSE [name |-> NameOr(name, PrinterLabel, ip), model |-> Unknown,
        status |-> "Available"]

\* a dict without keys
EmptyDict == <<>>

\* datetime.datetime.now().isoformat(): the time of the call
Now == "now"

\* save_printer_info: nothing when the history is switched off; else the
\* entry of the uri (an empty dict when there is none) gets the five keys
\* name, model, status, last_seen, capabilities and is stored under the uri
SavePrinterInfo(cache, history, printer_uri, printer_info) ==
  IF ~history THEN cache
  ELSE
    LET hits == {k \in 1..Len(cache) : cache[k].uri = printer_uri}
        existing == IF hits = {} THEN EmptyDict
                    ELSE cache[CHOOSE k \in hits : TRUE].info
        updated ==
          Merged(existing,
                 [name |-> Get(printer_info, "name", Get(existing, "name", Unknown)),
                  model |-> Get(printer_info, "model", Get(existing, "model", Unknown)),
                  status |-> Get(printer_info, "status", Unknown),
                  last_seen |-> Now,
                  capabilities |-> Get(printer_info, "capabilities",
                                       Get(existing, "capabilities", EmptyDict))])
    IN IF hits = {} THEN Append(cache, [uri |-> printer_uri, info |-> updated])
       ELSE [cache EXCEPT ![CHOOSE k \in hits : TRUE].info = updated]

\* what a request to a device modelled can give
HttpOutcomes == {host[p].http : host \in HostProfiles, p \in Ports}

\* _get_ipp_printer_info tabulated over the addresses and the outcomes of
\* the request modelled
IppInfoTable ==
  {[ip |-> ip, resp |-> resp, info |-> GetIppPrinterInfo(ip, resp)] :
     ip \in AllAddrs, resp \in HttpOutcomes}

\* the entry of the table for one request
IppInfoOf(ip, resp) ==
  (CHOOSE e \in IppInfoTable : e.ip = ip /\ e.resp = resp).info

\* the end of add_printer, found being the printer_info it arrived at: a
\* given name replaces the name found, and the printer is saved under its uri
AddPrinterSaved(cache, history, ip, name, port, found) ==
  SavePrinterInfo(cache, history, IppUri(ip, port),
    [name |-> IF name # NoName THEN name ELSE found.name,
     model |-> found.model,
     status |-> found.status,
     ip |-> ip,
     port |-> port,
     manually_added |-> TRUE,
     capabilities |->
       Deref(GetPrinterCapabilities(IppUri(ip, port), <<>>, <<>>).dicts,
             GetPrinterCapabilities(IppUri(ip, port), <<>>, <<>>).lists,
             GetPrinterCapabilities(IppUri(ip, port), <<>>, <<>>).ref)])

\* add_printer once the port answered, ipp being what _get_ipp_printer_info
\* returned; with no printer_info at all, printer_info['name'] raises
AddPrinterFrom(cache, history, ip, name, port, test_connection, ipp, web, printed) ==
  LET found == IF ipp # None THEN ipp ELSE WebPrinterInfo(ip, name, web)
  IN IF found = None
       THEN [cache |-> cache, raised |-> TRUE, ok |-> FALSE]
     ELSE [cache |-> AddPrinterSaved(cache, history, ip, name, port, found),
           raised |-> FALSE,
           ok |-> IF test_connection THEN printed ELSE TRUE]

\* the outcome of add_printer(ip, name, port, test_connection): the cache
\* after the call, whether the call raised, and whether it returned True.
\* host is what the device answers on each port, web the outcome of the
\* request to its web interface, printed the result of print_test_page.
AddPrinterOutcome(cache, history, ip, name, port, test_connection, host, web, printed) ==
  IF ~MatchesIpPattern(ip)
    THEN [cache |-> cache, raised |-> FALSE, ok |-> FALSE]
  ELSE IF ~IsPortOpen(host[port].connect)
    THEN [cache |-> cache, raised |-> FALSE, ok |-> FALSE]
  ELSE AddPrinterFrom(cache, history, ip, name, port, test_connection,
                      IppInfoOf(AddrOf(ip), host[port].http), web, printed)

AddIps == {IpText(<<1, 1>>), <<"m","x",".","l","a","n">>}

AddNames == {NoName, <<"m","i","n","e">>}

AddPorts == {631, 9100}

\* what the device answers: on port 9100 only, or on port 631 without
\* naming the vendor
AddHosts == {Printer9100, OtherDevice}

WebResponses == {HttpRaise, HttpNotFound, HttpOk(BannerNoTitle), HttpOk(BannerOther)}

\* --test not given; given and the test page printed; given and not printed
TestOutcomes ==
  {[test_connection |-> FALSE, printed |-> TRUE],
   [test_connection |-> TRUE, printed |-> TRUE],
   [test_connection |-> TRUE, printed |-> FALSE]}

\* the CLI always attaches a configuration manager; the history may have
\* been switched off in the config file
AddInit ==
  /\ RunInit
  /\ config_manager
  /\ CallIdle
  /\ HeapIdle
  /\ CliIdle
  /\ \E file \in {f \in ConfigFiles : "network" \notin DOMAIN f} : ConfigLoaded(file)

\* the add command, run before the next discovery
AddPrinter ==
  /\ pc = "manual"
  /\ Len(added) < MaxAdds
  /\ \E ip \in AddIps, name \in AddNames, port \in AddPorts,
        test \in TestOutcomes, host \in AddHosts, web \in WebResponses :
       LET out == AddPrinterOutcome(printers_cache, config.save_printer_history,
                                    ip, name, port, test.test_connection, host,
                                    web, test.printed)
       IN /\ printers_cache' = out.cache
          /\ added' = Append(added, [ip |-> ip, port |-> port,
                                      raised |-> out.raised, ok |-> out.ok])
  /\ UNCHANGED <<config_manager, pc, calls, printers, contribVars, unique_printers,
                 sweepVars, poolVars, callVars, heapVars, confVars, config_calls>>

AddNext ==
  \/ AddPrinter
  \/ ManualStep

SpecAdd == AddInit /\ [][AddNext]_vars

(***************************************************************************)
(* The methods of the configuration manager that change the configuration. *)
(***************************************************************************)
\* self.get(key) for a key without dots: the value, a reference when the
\* value is a nested dict
ConfigGet(cfg, key) == cfg[key]

\* self.set(key, value), keys being key.split('.'): the dict reached through
\* keys[:-1] gets value under keys[-1]; a nested dict is changed in place
ConfigSet(cfg, objs, keys, value) ==
  IF Len(keys) = 1
    THEN [config |-> [cfg EXCEPT ![keys[1]] = value], objects |-> objs]
  ELSE [config |-> cfg,
        objects |-> [objs EXCEPT ![cfg[keys[1]]] =
                       Merged(objs[cfg[keys[1]]], [k \in {keys[2]} |-> value])]]

\* update_network_config(update): current = self.get('network');
\* current.update(update); self.set('network', current)
UpdateNetworkConfig(cfg, objs, update) ==
  LET current == ConfigGet(cfg, "network")
      updated == [objs EXCEPT ![current] = Merged(objs[current], update)]
  IN ConfigSet(cfg, updated, <<"network">>, current)

\* reset_to_defaults: self.config = self.default_config.copy(), a new
\* top-level dict whose nested dicts are those of default_config
ResetToDefaults(dc) == dc

\* set() with a key and a value that is not a dict
SetInputs ==
  {[keys |-> <<"default_copies">>, value |-> 3],
   [keys |-> <<"save_printer_history">>, value |-> FALSE],
   [keys |-> <<"logging", "level">>, value |-> "ERROR"],
   [keys |-> <<"network", "max_workers">>, value |-> 5],
   [keys |-> <<"network", "ports">>, value |-> <<631>>]}

\* set('network', value) with a dict the caller built
SetDictInputs == {[scan_ranges |-> <<1>>, ports |-> <<631>>, max_workers |-> 5]}

UpdateInputs == {[max_workers |-> 2], [ports |-> <<9100>>, scan_ranges |-> <<>>]}

\* the manager after __init__, with any of the config files
ConfigInit ==
  /\ RunInit
  /\ config_manager
  /\ printers_cache = <<>>
  /\ CallIdle
  /\ HeapIdle
  /\ CliIdle
  /\ \E file \in ConfigFiles : ConfigLoaded(file)

CallSet ==
  /\ Len(config_calls) < MaxConfigCalls
  /\ \E in \in SetInputs :
       LET out == ConfigSet(config, objects, in.keys, in.value) IN
         /\ config' = out.config
         /\ objects' = out.objects
  /\ config_calls' = Append(config_calls, "set")
  /\ UNCHANGED <<findVars, callVars, heapVars, default_config, added>>

\* the dict passed as value is a new object
CallSetDict ==
  /\ Len(config_calls) < MaxConfigCalls
  /\ \E value \in SetDictInputs :
       LET out == ConfigSet(config, Append(objects, value), <<"network">>,
                            Len(objects) + 1) IN
         /\ config' = out.config
         /\ objects' = out.objects
  /\ config_calls' = Append(config_calls, "set")
  /\ UNCHANGED <<findVars, callVars, heapVars, default_config, added>>

CallUpdateNetworkConfig ==
  /\ Len(config_calls) < MaxConfigCalls
  /\ \E update \in UpdateInputs :
       LET out == UpdateNetworkConfig(config, objects, update) IN
         /\ config' = out.config
         /\ objects' = out.objects
  /\ config_calls' = Append(config_calls, "update_network_config")
  /\ UNCHANGED <<findVars, callVars, heapVars, default_config, added>>

CallResetToDefaults ==
  /\ Len(config_calls) < MaxConfigCalls
  /\ config' = ResetToDefaults(default_config)
  /\ config_calls' = Append(config_calls, "reset_to_defaults")
  /\ UNCHANGED <<findVars, callVars, heapVars, default_config, objects, added>>

ConfigNext ==
  \/ CallSet
  \/ CallSetDict
  \/ CallUpdateNetworkConfig
  \/ CallResetToDefaults

SpecConfig == ConfigInit /\ [][ConfigNext]_vars

(***************************************************************************)
(* Properties.                                                             *)
(***************************************************************************)
Done == pc = "done"

\* the sweep has returned to find_canon_printers
SweepReturned == pc \in {"mdns", "dedup", "done", "raised"}

Unfinished(fs) == {i \in 1..Len(fs) : fs[i].state # "finished"}

Found(fs) == {i \in 1..Len(fs) : fs[i].result # None}

Records(list) == {list[i] : i \in 1..Len(list)}

\* the records the tasks returned, in submission order
RECURSIVE InSubmissionOrder(_)
InSubmissionOrder(fs) ==
  IF fs = <<>> THEN <<>>
  ELSE IF Head(fs).result # None
    THEN <<Head(fs).result>> \o InSubmissionOrder(Tail(fs))
    ELSE InSubmissionOrder(Tail(fs))

\* the list a run returns when the sweep emits in submission order
Canonical ==
  Dedup(manual_printers \o system_printers \o InSubmissionOrder(futures)
          \o mdns_printers)

\* C1: the list a discovery run returns has no two records with equal uri,
\* whatever the producers emitted.
C1_UniqueUris ==
  Done => \A i, j \in 1..Len(unique_printers) :
            i # j => unique_printers[i].uri # unique_printers[j].uri

\* a run whose producers emitted duplicates, inside the mDNS producer and
\* between the manual one, the sweep and the mDNS one
C1_Witness ==
  /\ Done
  /\ Len(mdns_printers) = 2
  /\ mdns_printers[1].uri = mdns_printers[2].uri
  /\ Uris(manual_printers) \cap Uris(network_printers) # {}
  /\ Uris(manual_printers) \cap Uris(mdns_printers) # {}
  /\ Len(unique_printers) >= 2

\* C2: for a uri emitted by several producers the surviving record is one of
\* the earliest producer in the order manual, system, network scan, mDNS;
\* a manual record wins over a rediscovery by the sweep under another name.
C2_PriorityWins ==
  Done =>
    /\ Uris(unique_printers) = Uris(printers)
    /\ \A k \in 1..Len(unique_printers) :
         LET r == unique_printers[k] IN
           IF r.uri \in Uris(manual_printers) THEN r \in Records(manual_printers)
           ELSE IF r.uri \in Uris(system_printers) THEN r \in Records(system_printers)
           ELSE IF r.uri \in Uris(network_printers) THEN r \in Records(network_printers)
           ELSE r \in Records(mdns_printers)

\* the sweep rediscovered a manual printer under a different name
C2_Witness ==
  /\ Done
  /\ \E m \in Records(manual_printers), n \in Records(network_printers) :
       m.uri = n.uri /\ m.name # n.name
  /\ Uris(system_printers) \cap Uris(network_printers) # {}

\* C3: the returned list is the same ordered list for every completion order
\* of the probe tasks: it is the one the producers' priority and the
\* submission order of the sweep give.
C3_OrderIndependent == Done => unique_printers = Canonical

\* C4: at every instant at most max_workers probe tasks have started and
\* not yet finished.
C4_InFlightBounded == pool_started - pool_finished <= max_workers

\* the pool is full and tasks wait in its queue
C4_Witness ==
  /\ pool_started - pool_finished = max_workers
  /\ pool_submitted > pool_started

\* C5: when the sweep returns, every address of the ranges has been
\* submitted, every task has completed, and the record of every task that
\* found a printer is in the sweep's contribution, once.
C5_SweepWaitsForAll ==
  SweepReturned =>
    /\ Len(futures) = Len(AddrsOfRanges(network_ranges))
    /\ Unfinished(futures) = {}
    /\ Len(network_printers) = Cardinality(Found(futures))
    /\ \A i \in Found(futures) : futures[i].result \in Records(network_printers)

\* a sweep that returned two printers and a task that found none
C5_Witness ==
  /\ pc = "mdns"
  /\ Len(futures) = 3
  /\ Cardinality(Found(futures)) = 2
  /\ Len(network_printers) = 2

\* C6: while a probe task is unfinished the aggregate list holds no
\* network-scan record, and once the mDNS producer has been invoked the
\* whole contribution of the sweep is in the aggregate list.
C6_NoStreaming ==
  /\ (pc = "submit" \/ Unfinished(futures) # {}) =>
       \A k \in 1..Len(printers) : printers[k].source # "network_scan"
  /\ (\E c \in 1..Len(calls) : calls[c] = "mdns") =>
       /\ Unfinished(futures) = {}
       /\ \A i \in Found(futures) : futures[i].result \in Records(printers)

\* the sweep holds a record in its own list while another task still runs
C6_Witness ==
  /\ pc = "collect"
  /\ scan_printers # <<>>
  /\ Running(futures) # {}

SourceRank(source) ==
  CASE source = "manual_config" -> 0
    [] source = "lpstat" -> 1
    [] source = "network_scan" -> 2
    [] source = "mdns" -> 3

ProducerOrder ==
  IF config_manager THEN <<"manual", "system", "network", "mdns">>
                    ELSE <<"system", "network", "mdns">>

\* C7: the producers are invoked in the order manual, system, network scan,
\* mDNS (no manual one without a configuration manager), and the list handed
\* to deduplication holds the manual records, then the system ones, then
\* the network-scan ones, then the mDNS ones.
C7_ProducersInOrder ==
  /\ Len(calls) <= Len(ProducerOrder)
  /\ calls = SubSeq(ProducerOrder, 1, Len(calls))
  /\ (~config_manager => manual_printers = <<>>)
  /\ pc \in {"dedup", "done"} =>
       /\ calls = ProducerOrder
       /\ printers = manual_printers \o system_printers \o network_printers
                       \o mdns_printers
       /\ \A i, j \in 1..Len(printers) :
            i < j => SourceRank(printers[i].source) <= SourceRank(printers[j].source)

\* the list handed to deduplication has records of all four producers
C7_Witness ==
  /\ pc = "dedup"
  /\ {printers[i].source : i \in 1..Len(printers)}
       = {"manual_config", "lpstat", "network_scan", "mdns"}

\* C8: the set of records returned, with the producer each comes from, does
\* not depend on the order in which the probe tasks completed.
C8_SetIndependent == Done => Records(unique_printers) = Records(Canonical)

\* the sweep emitted its records in another order than it submitted them
C8_Witness ==
  /\ Done
  /\ Len(network_printers) = 2
  /\ network_printers # InSubmissionOrder(futures)

\* positions of the first record of each uri
FirstSeen(list) ==
  {i \in 1..Len(list) : \A j \in 1..(i - 1) : list[j].uri # list[i].uri}

Kth(S, k) == CHOOSE i \in S : Cardinality({j \in S : j <= i}) = k

\* C9: deduplication returns the first record seen for each uri, in input
\* order and unchanged, and never more records than it was given.
C9_FirstSeenKept ==
  Done =>
    /\ Len(unique_printers) = Cardinality(FirstSeen(printers))
    /\ Len(unique_printers) <= Len(printers)
    /\ \A k \in 1..Len(unique_printers) :
         unique_printers[k] = printers[Kth(FirstSeen(printers), k)]

\* a later record that differs from the kept one of its uri was dropped
C9_Witness ==
  /\ Done
  /\ \E i, j \in 1..Len(printers) :
       /\ i < j
       /\ printers[i].uri = printers[j].uri
       /\ printers[i] # printers[j]
       /\ printers[j] \notin Records(unique_printers)

ScanReturned == fn = "_scan_host_for_ipp" /\ returned

\* the endpoints that answer a connection and whose banner makes the loop
\* return a record
AcceptingEndpoints ==
  {e \in Endpoints :
     /\ e.connect = "connected"
     /\ LET printer_info == GetIppPrinterInfo(CallIp, e.http)
        IN printer_info # None /\ IsCanonPrinter(printer_info.name)}

Accepted(host, port) == host[port] \in AcceptingEndpoints

\* C11: the ports of a host are probed one at a time in the order 631, 9100,
\* 8080, 80; the record carries the first port that is reachable and
\* vendor-matching, every earlier port was probed and rejected, no later port
\* is probed, and the host yields one record at most.
C11_FirstMatchingPortWins ==
  ScanReturned =>
    LET n == Len(ret.probed) IN
      /\ n <= Len(ipp_ports)
      /\ ret.probed = SubSeq(ipp_ports, 1, n)
      /\ IF ret.result = None
           THEN /\ n = Len(ipp_ports)
                /\ \A k \in 1..n : ~Accepted(arg.host, ipp_ports[k])
           ELSE /\ n >= 1
                /\ ret.result.uri.port = ipp_ports[n]
                /\ Accepted(arg.host, ipp_ports[n])
                /\ \A k \in 1..(n - 1) : ~Accepted(arg.host, ipp_ports[k])
                /\ ret.result.source = "network_scan"

\* a record on the third port, after a closed port and a rejected banner
C11_Witness ==
  /\ ScanReturned
  /\ ret.result # None
  /\ ret.probed = <<631, 9100, 8080>>
  /\ Len(ret.fetched) = 2
  /\ arg.host[80].connect = "connected"

\* C12: a host on which no configured port accepts a connection yields no
\* record, and a banner is fetched only from a port found reachable.
C12_UnreachableNeverFetched ==
  ScanReturned =>
    /\ (\A p \in Ports : arg.host[p].connect # "connected") => ret.result = None
    /\ \A i \in 1..Len(ret.fetched) :
         arg.host[ret.fetched[i]].connect = "connected"

\* every port fails to connect, each in another way
C12_Witness ==
  /\ ScanReturned
  /\ ret.result = None
  /\ ret.fetched = <<>>
  /\ {arg.host[p].connect : p \in Ports} = {"refused", "timeout", "raise"}

\* the banners whose lower-cased body holds a keyword of the vendor
Banners == {e.http.text : e \in {x \in Endpoints : x.http # HttpRaise}}

KeywordBanners == {b \in Banners : AnyKeywordIn(LowerBody(b))}

\* C13: an endpoint whose banner fetch succeeds produces a record exactly
\* when its lower-cased body contains a vendor keyword, whatever its title
\* says.
C13_BodyKeywordDecides ==
  ScanReturned =>
    \A i \in 1..Len(ret.fetched) :
      LET port == ret.fetched[i]
          http == arg.host[port].http
      IN (http # HttpRaise /\ http.status_code = 200) =>
           ( (http.text \in KeywordBanners)
               <=> (ret.result # None /\ ret.result.uri.port = port) )

\* t is the text of a title element of the banner
IsTitleText(text, t) ==
  \E i \in 1..Len(text), j \in 1..Len(text) :
    /\ i + 1 < j
    /\ text[i] \in TitleOpen
    /\ text[j] \in TitleClose
    /\ t = SubSeq(text, i + 1, j - 1)
    /\ \A k \in (i + 1)..(j - 1) : text[k] \notin TitleOpen \cup TitleClose \cup {"<"}

TitledBanners == {b \in Banners : \E i \in 1..Len(b) : b[i] \in TitleOpen}

\* C15: the record for host ip on winning port p has uri
\* ipp://<ip>:<p>/ipp/print, source network_scan, and as name the text of
\* the banner's title element if it has one, "Canon Printer at <ip>" if not.
C15_RecordIdentity ==
  (ScanReturned /\ ret.result # None) =>
    LET p == ret.probed[Len(ret.probed)]
        text == arg.host[p].http.text
    IN /\ ret.result.uri = [scheme |-> "ipp", host |-> IpText(arg.ip),
                            port |-> p, path |-> "/ipp/print"]
       /\ ret.result.source = "network_scan"
       /\ IF text \in TitledBanners
            THEN IsTitleText(text, ret.result.name)
            ELSE ret.result.name = <<"C","a","n","o","n"," ","P","r","i","n","t","e","r",
                                     " ","a","t"," ">> \o IpText(arg.ip)

\* a titled banner wins on the third port after an untitled one was closed
C15_Witness ==
  /\ ScanReturned
  /\ ret.result # None
  /\ ret.result.uri.port = 8080
  /\ ret.result.name = <<"M","X","9">>
  /\ arg.host[631] = Closed
  /\ arg.host[9100] = Open(HttpOk(BannerOther))

\* the same for a banner without a title
C15_WitnessSynthesized ==
  /\ ScanReturned
  /\ ret.result # None
  /\ ret.result.name = SynthName(arg.ip)

(***************************************************************************)
(* Properties of one call of _extract_model.                               *)
(***************************************************************************)
ModelReturned == fn = "_extract_model" /\ returned

\* the text the parentheses of the pattern capture in a match at m
Identifier(pat, s, m) ==
  IF pat.kind = "series" THEN SubSeq(s, m[1], m[1] + m[2] - 1)
  ELSE LET a == m[1] + Len(pat.lit)
       IN SubSeq(s, a + RunLen(s, a, {" "}), m[1] + m[2] - 1)

\* "Canon " and the identifier matched by the first pattern that matches
ModelByIdentifier(name) ==
  LET up == Upper(name)
      ok == {p \in 1..Len(patterns) : ReSearch(patterns[p], up)[2] > 0}
  IN IF ok = {} THEN CanonPrinterLabel
     ELSE LET p == CHOOSE q \in ok : \A r \in ok : q <= r
          IN CanonPrefix \o Identifier(patterns[p], up, ReSearch(patterns[p], up))

\* C14: the model is "Canon " followed by the model identifier matched by
\* the first pattern that matches the upper-cased name, "Canon Printer" when
\* none matches; "Canon PIXMA TS3400" gives "Canon TS3400".
C14_ModelIsIdentifier ==
  ModelReturned => ret = ModelByIdentifier(arg)

(***************************************************************************)
(* Properties of one call of _get_manual_printers.                         *)
(***************************************************************************)
ManualReturned == fn = "_get_manual_printers" /\ returned /\ arg.attached

IsFlagged(e) == "manually_added" \in DOMAIN e.info /\ e.info.manually_added

\* C16: the manual producer emits one record for every cache entry flagged
\* manually_added, in cache order, and none for the other entries; the status
\* is Available when the connectivity test of the uri succeeds and Offline
\* otherwise, so an unreachable entry is emitted too.
C16_ManualEntriesKept ==
  ManualReturned =>
    LET flagged == SelectSeq(arg.cache, IsFlagged) IN
      /\ Len(ret) = Len(flagged)
      /\ \A i \in 1..Len(flagged) :
           LET uri == flagged[i].uri
               target == <<uri.host, IF uri.port = NoPort THEN 631 ELSE uri.port>>
           IN /\ ret[i].uri = uri
              /\ ret[i].source = "manual_config"
              /\ ret[i].status = IF arg.net[target] = "connected"
                                   THEN "Available" ELSE "Offline"

\* a flagged entry that answers, one that does not, beside an unflagged one
C16_Witness ==
  /\ ManualReturned
  /\ Len(ret) = 1
  /\ ret[1].status = "Offline"
  /\ Len(arg.cache) = 2
  /\ arg.cache[1] = EntrySeen
  /\ arg.net[ConnectTarget(EntrySeen.uri)] = "connected"

(***************************************************************************)
(* Properties of one call of _get_network_ranges.                          *)
(***************************************************************************)
RangesReturned == fn = "_get_network_ranges" /\ returned

\* C17: whatever the gateway-detection command does (missing, timeout,
\* non-zero exit, no gateway line, unparseable gateway, success) the range
\* resolver returns, and the list it returns is not empty.
C17_RangesNeverEmpty ==
  RangesReturned => ret # <<>>

\* the command exited with status 0 and named a gateway that parses
DetectionSucceeded(route) ==
  /\ route.kind = "exit"
  /\ route.returncode = 0
  /\ route.gw \notin {NoGatewayLine, BadGateway}

\* C18: when gateway detection fails the range resolver returns exactly the
\* four default blocks 192.168.1.0/24, 192.168.0.0/24, 10.0.0.0/24,
\* 172.16.0.0/24, and when it succeeds the one /24 block of the gateway.
C18_DefaultsOnFailure ==
  RangesReturned =>
    ret = IF DetectionSucceeded(arg) THEN <<arg.gw.ip[1]>> ELSE <<1, 2, 3, 4>>

(***************************************************************************)
(* Properties of a whole run: failures and side effects.                   *)
(***************************************************************************)
\* C19: a discovery run never raises to its caller; whatever fails in a
\* producer, find_canon_printers still returns a list.
C19_NeverRaises == pc # "raised"

\* C20: a discovery run leaves the manual-printer cache as it found it and
\* keeps the configuration reference of the discovery object; no step of a
\* run adds, removes or modifies a cache entry.
C20_CacheUntouched ==
  [][printers_cache' = printers_cache /\ config_manager' = config_manager]_vars

\* a run that re-validated a manual entry, found it offline and returned
C20_Witness ==
  /\ Done
  /\ config_manager
  /\ \E i \in 1..Len(manual_printers) : manual_printers[i].status = "Offline"
  /\ \E i \in 1..Len(unique_printers) : unique_printers[i].source = "manual_config"

(***************************************************************************)
(* Properties of one call of test_printer_connection.                      *)
(***************************************************************************)
TestReturned == fn = "test_printer_connection" /\ returned

\* C21: the connectivity test returns a boolean; it is true only when the
\* one TCP connect succeeds, false on refusal, timeout, a missing or
\* unresolvable host and a uri that cannot be parsed; a uri without a port
\* is tested on port 631.
C21_TestIsBoolean ==
  TestReturned =>
    /\ ret \in BOOLEAN
    /\ ret = /\ arg.uri.port # BadPort
             /\ arg.net[<<arg.uri.host,
                          IF arg.uri.port = NoPort THEN 631 ELSE arg.uri.port>>]
                  = "connected"

\* a uri without a port, whose host answers on 631 and not on 9100
C21_Witness ==
  /\ TestReturned
  /\ ret = TRUE
  /\ arg.uri.port = NoPort
  /\ arg.net[<<arg.uri.host, 9100>>] = "timeout"

\* false for a uri whose port cannot be parsed although the host answers
C21_WitnessUnparsed ==
  /\ TestReturned
  /\ ret = FALSE
  /\ arg.uri.port = BadPort
  /\ \A t \in DOMAIN arg.net : arg.net[t] = "connected"

(***************************************************************************)
(* Properties of the list a run returns.                                   *)
(***************************************************************************)
\* C22: every record of the list a discovery run returns carries the
\* capabilities descriptor the capability estimator attached to it.
C22_CapabilitiesAttached ==
  Done => \A i \in 1..Len(unique_printers) :
            "capabilities" \in DOMAIN unique_printers[i]

(***************************************************************************)
(* Properties of get_printer_capabilities.                                 *)
(***************************************************************************)
\* C23: the capability estimator returns, for every uri and on every call,
\* duplex true, color true, max_copies 99, the media A4, Letter, Legal, 4x6,
\* 5x7 and the qualities draft, normal, high, whatever callers did to the
\* descriptors returned before.
C23_SameDescriptor ==
  Len(heap_dicts) > 0 =>
    caps_ret = [duplex |-> TRUE, color |-> TRUE, max_copies |-> 99,
                supported_media |-> <<"A4", "Letter", "Legal", "4x6", "5x7">>,
                supported_quality |-> <<"draft", "normal", "high">>]

\* a second call after the caller emptied the media list and cleared the
\* duplex key of the first descriptor
C23_Witness ==
  /\ Len(heap_dicts) = 2
  /\ heap_dicts[1].duplex = FALSE
  /\ heap_lists[heap_dicts[1].supported_media] = <<>>
  /\ heap_dicts[2].duplex = TRUE
  /\ caps_ret # None

(***************************************************************************)
(* Properties of a run under a configuration.                              *)
(***************************************************************************)
\* self.config['network']
NetworkOptions == objects[config.network]

\* C24: the ports a sweep probes are those of the configured ports option,
\* in that order, and no more probe tasks run at once than the configured
\* max_workers option allows, whatever values are configured.
C24_OptionsHonoured ==
  /\ Cardinality(Running(futures)) <= NetworkOptions.max_workers
  /\ \A i \in 1..Len(futures) :
       LET f == futures[i] IN
         f.state = "finished" =>
           /\ Len(f.probed) <= Len(NetworkOptions.ports)
           /\ f.probed = SubSeq(NetworkOptions.ports, 1, Len(f.probed))
           /\ f.result = None => f.probed = NetworkOptions.ports

\* C25: when the range resolver returns no range, the sweep submits no
\* probe task and contributes nothing, and the run returns the records of
\* the other producers.
C25_EmptyRangesEmptySweep ==
  (SweepReturned /\ network_ranges = <<>>) =>
    /\ futures = <<>>
    /\ network_printers = <<>>
    /\ printers = manual_printers \o system_printers \o mdns_printers
    /\ Done => Uris(unique_printers) =
                 Uris(manual_printers) \cup Uris(system_printers) \cup Uris(mdns_printers)

\* a run whose resolver found no range returns what lpstat or mDNS found
C25_Witness ==
  /\ Done
  /\ network_ranges = <<>>
  /\ futures = <<>>
  /\ unique_printers # <<>>
  /\ ~config_manager

(***************************************************************************)
(* Properties of the threads of a sweep.                                   *)
(***************************************************************************)
\* C26: the result list of the sweep is written only by the aggregating
\* thread, one record per completed task it takes from as_completed; a step
\* of a probe task changes nothing but the return value held by its own
\* future, so no record is lost or added twice.
C26_SingleWriter ==
  [][ /\ (futures' # futures) =>
           /\ scan_printers' = scan_printers
           /\ printers' = printers
           /\ yielded' = yielded
      /\ (scan_printers' # scan_printers \/ yielded' # yielded) =>
           /\ futures' = futures
           /\ \E i \in 1..Len(futures) :
                /\ i \notin yielded
                /\ futures[i].state = "finished"
                /\ yielded' = yielded \cup {i}
                /\ scan_printers' = IF futures[i].result = None
                                      THEN scan_printers
                                      ELSE Append(scan_printers, futures[i].result)
    ]_vars

\* the aggregating thread has taken one record while one task still runs
\* and another has finished with a record and waits to be taken
C26_Witness ==
  /\ pc = "collect"
  /\ Len(scan_printers) = 1
  /\ Running(futures) # {}
  /\ \E i \in Found(futures) : i \notin yielded

\* C27: under the timeouts and a fair pool, every task submitted to the
\* sweep is eventually completed and the discovery run eventually returns.
C27_RunReturns == <>(Done /\ Unfinished(futures) = {})

\* C28: in the list a discovery run returns, no network-scan record refers
\* to a host whose IP is that of a manual record, so a manually configured
\* device does not appear a second time under another port's uri.
C28_ManualIpsSkipped ==
  Done => \A m, n \in Records(unique_printers) :
            (m.source = "manual_config" /\ n.source = "network_scan") =>
              n.uri.host # m.ip

(***************************************************************************)
(* Properties of the add command.                                          *)
(***************************************************************************)
\* C29: after add_printer(ip, port) returned success with the printer
\* history enabled, the cache entry of ipp://<ip>:<port>/ipp/print is
\* flagged manually_added and holds the ip and the port, and the next
\* discovery run has a manual-source record with that uri.
C29_AddedIsManual ==
  \A c \in Records(added) :
    (c.ok /\ config.save_printer_history) =>
      /\ \E k \in 1..Len(printers_cache) :
           /\ printers_cache[k].uri = IppUri(c.ip, c.port)
           /\ Get(printers_cache[k].info, "manually_added", FALSE)
           /\ Get(printers_cache[k].info, "ip", <<>>) = c.ip
           /\ Get(printers_cache[k].info, "port", NoPort) = c.port
      /\ pc = "system" =>
           \E r \in Records(printers) :
             r.uri = IppUri(c.ip, c.port) /\ r.source = "manual_config"

(***************************************************************************)
(* Properties of the configuration manager.                                *)
(***************************************************************************)
\* C30: right after reset_to_defaults every configuration key, the nested
\* network and logging keys included, reads the default value written in
\* __init__, whatever set, update_network_config and reset_to_defaults
\* calls came before.
C30_ResetRestoresDefaults ==
  (config_calls # <<>> /\ config_calls[Len(config_calls)] = "reset_to_defaults") =>
    /\ config.default_copies = 1
    /\ config.save_printer_history = TRUE
    /\ objects[config.logging] = [enabled |-> TRUE, level |-> "INFO"]
    /\ objects[config.network] =
         [scan_ranges |-> <<1, 2, 3>>, ports |-> <<631, 9100, 8080, 80>>,
          max_workers |-> 50]

====
